---- MODULE Spec2Model ----
(***************************************************************************)
(* Model of the two MCP tool servers of the repository:                    *)
(*   servers/tile_catalog_server.py  (tile index math, provider catalog,   *)
(*                                    tile URL templates, MapLibre style)  *)
(*   servers/maps_geo_server.py      (geocoding, reverse geocoding, POI    *)
(*                                    search, routing over HTTP upstreams) *)
(*                                                                         *)
(* Every tool is a single-shot handler: one action per tool, which records *)
(* the invocation (op, args), what the handler did with the network        *)
(* (requests) and how it ended (outcome: a returned payload or a raised    *)
(* exception).  The tools return json.dumps(payload); the model keeps the  *)
(* payload document itself, json.dumps being a serialisation of it that no *)
(* property below looks into.                                              *)
(*                                                                         *)
(* Numbers: latitudes and longitudes are in millidegrees.  Python floats   *)
(* are modelled by exact integer arithmetic; the one transcendental term   *)
(* of the tile formula is tabulated (MercatorLogOverPi).                   *)
(***************************************************************************)
EXTENDS Integers, Sequences, FiniteSets, TLC

VARIABLES TILE_PROVIDERS, op, args, requests, outcome,
          invocations, open_clients, clients_created

vars == <<TILE_PROVIDERS, op, args, requests, outcome,
          invocations, open_clients, clients_created>>

\* The state of the single-shot view of the tools, and the state of the
\* step-by-step view of interleaved invocations and their HTTP clients.
call_vars == <<op, args, requests, outcome>>

client_vars == <<invocations, open_clients, clients_created>>

(***************************************************************************)
(* Bounds of the model.                                                    *)
(***************************************************************************)
MaxZoom == 3          \* zoom levels 0..MaxZoom are enumerated (plus RefZoom)
MaxNegZoom == 2       \* negative zoom levels -MaxNegZoom..-1 are enumerated
MaxTile == 2          \* tile indices / zooms 0..MaxTile for the URL tools
MaxElements == 3      \* longest upstream list
MaxResults == 3       \* largest maxResults / limit argument
MaxCalls == 2         \* invocations the host may have in progress at once
MaxClients == 3       \* HTTP clients created in one run

(***************************************************************************)
(* How an invocation ends.                                                 *)
(***************************************************************************)
Return(p) == [kind |-> "return", payload |-> p]

Raise(e, msg) == [kind |-> "raise", exc |-> e, message |-> msg]

NoOutcome == [kind |-> "none"]

IsReturn(o) == o.kind = "return"

IsRaise(o) == o.kind = "raise"

(***************************************************************************)
(* tile_catalog_server.py                                                  *)
(***************************************************************************)
SeededCatalog ==
  [n \in {"OpenStreetMap.Mapnik"} |->
     [urlTemplate |-> "https://{s}.tile.openstreetmap.org/{z}/{x}/{y}.png",
      subdomains  |-> <<"a", "b", "c">>,
      attribution |-> "(c) OpenStreetMap contributors",
      description |-> "Standard OSM raster tiles (Mapnik style)."]]

\* get_provider_info falling back to the seeded provider for an unknown name.
get_provider_info_Fallback(catalog, provider) ==
  IF provider \notin DOMAIN catalog
    THEN Return(catalog["OpenStreetMap.Mapnik"])
    ELSE Return(catalog[provider])

\* get_provider_info: the descriptor, or ValueError for a name that is not a key.
get_provider_info(catalog, provider) ==
  IF provider \notin DOMAIN catalog
    THEN Raise("ValueError", "Unknown tile provider: " \o provider)
    ELSE Return(catalog[provider])

\* str.replace(old, new): every non-overlapping occurrence, left to right.
RECURSIVE replace(_, _, _)
replace(s, old, new) ==
  IF Len(s) < Len(old) THEN s
  ELSE IF SubSeq(s, 1, Len(old)) = old
         THEN new \o replace(SubSeq(s, Len(old) + 1, Len(s)), old, new)
         ELSE SubSeq(s, 1, 1) \o replace(SubSeq(s, 2, Len(s)), old, new)

\* Python's `sub in s` for strings.
contains(s, sub) ==
  \E i \in 1..(Len(s) - Len(sub) + 1) : SubSeq(s, i, i + Len(sub) - 1) = sub

\* Python values that may be of more than one type carry their type (t) and
\* their value in a field named after the type: None, a str, an int.
None == [t |-> "null"]

Str(s) == [t |-> "str", str |-> s]

Num(n) == [t |-> "num", num |-> n]

\* str(v) for an int (decimal digits) or a str (itself).
str(v) == IF v.t = "num" THEN ToString(v.num) ELSE v.str

build_tile_url_from_template(template, z, x, y, subdomain) ==
  LET url == replace(replace(replace(template, "{z}", str(z)),
                             "{x}", str(x)),
                     "{y}", str(y))
  IN  IF contains(url, "{s}")
        THEN replace(url, "{s}", IF subdomain = None THEN "a" ELSE subdomain.str)
        ELSE url

\* Scale of the tabulated Mercator term: values are multiples of 2^-24.
MercatorScale == 16777216

\* round(2^24 * log(tan(lat_rad) + 1/cos(lat_rad)) / pi) of the IEEE-754 double
\* evaluation, per latitude in millidegrees.  At -90 degrees the argument of
\* log is 0.0 and math.log raises ValueError.
MercatorLogOverPi ==
  [lat \in {-90000, -85052, -85051, -45000, 0, 33895, 45000, 85051, 85052, 90000} |->
     CASE lat = -90000 -> [err |-> "ValueError"]
       [] lat = -85052 -> [val |-> -16778157]
       [] lat = -85051 -> [val |-> -16777077]
       [] lat = -45000 -> [val |-> -4706847]
       [] lat = 0      -> [val |-> 0]
       [] lat = 33895  -> [val |-> 3361480]
       [] lat = 45000  -> [val |-> 4706847]
       [] lat = 85051  -> [val |-> 16777077]
       [] lat = 85052  -> [val |-> 16778157]
       [] lat = 90000  -> [val |-> 203066968]]

\* floor(2^k * a / d) for k >= 0, a >= 0, d > 0, with its remainder, by binary
\* long multiplication (no intermediate exceeds 2 * d).
RECURSIVE FloorScaled(_, _, _)
FloorScaled(k, a, d) ==
  IF k = 0 THEN [q |-> a \div d, r |-> a % d]
  ELSE LET p == FloorScaled(k - 1, a, d)
       IN  IF 2 * p.r >= d THEN [q |-> 2 * p.q + 1, r |-> 2 * p.r - d]
                           ELSE [q |-> 2 * p.q, r |-> 2 * p.r]

RECURSIVE Pow2(_)
Pow2(k) == IF k = 0 THEN 1 ELSE 2 * Pow2(k - 1)

\* IntOfScaled with round-to-nearest in place of int()'s truncation.
IntOfScaled_Rounding(zoom, num, den) ==
  LET a == IF num < 0 THEN -num ELSE num
      p == IF zoom >= 0 THEN FloorScaled(zoom, a, den)
                        ELSE [q |-> a \div (den * Pow2(-zoom)),
                              r |-> (a % (den * Pow2(-zoom))) \div Pow2(-zoom)]
      m == IF 2 * p.r >= den THEN p.q + 1 ELSE p.q
  IN  IF num < 0 THEN -m ELSE m

\* int(n * (num / den)) with n = 2 ** zoom: truncation toward zero; for a
\* negative zoom Python's 2 ** zoom is the float 1 / 2^(-zoom).
IntOfScaled(zoom, num, den) ==
  LET a == IF num < 0 THEN -num ELSE num
      m == IF zoom >= 0 THEN FloorScaled(zoom, a, den).q
                        ELSE a \div (den * Pow2(-zoom))
  IN  IF num < 0 THEN -m ELSE m

\* lat_lon_to_tile_indices: <<x, y>>, or the ValueError of math.log.
lat_lon_to_tile_indices(lat_deg, lon_deg, zoom) ==
  LET m == MercatorLogOverPi[lat_deg]
  IN  IF "err" \in DOMAIN m
        THEN Raise(m.err, "math domain error")
        ELSE Return(<<IntOfScaled(zoom, lon_deg + 180000, 360000),
                      IntOfScaled(zoom, MercatorScale - m.val, 2 * MercatorScale)>>)

latLonToTileResult(lat, lon, zoom) ==
  LET r == lat_lon_to_tile_indices(lat, lon, zoom)
  IN  IF IsRaise(r) THEN r
      ELSE Return([z |-> zoom, x |-> r.payload[1], y |-> r.payload[2]])

getProviderTileUrlResult(catalog, provider, z, x, y, subdomain) ==
  LET info == get_provider_info(catalog, provider)
  IN  IF IsRaise(info) THEN info
      ELSE Return([provider    |-> provider,
                   z |-> z, x |-> x, y |-> y,
                   url         |-> build_tile_url_from_template(
                                     info.payload.urlTemplate, Num(z), Num(x), Num(y), subdomain),
                   attribution |-> info.payload.attribution,
                   description |-> info.payload.description])

\* getMapLibreStyle building its tile URL with subdomain "b".
getMapLibreStyleResult_SubdomainB(catalog, provider, centerLat, centerLon, zoom) ==
  LET info == get_provider_info(catalog, provider)
  IN  IF IsRaise(info) THEN info
      ELSE Return([version |-> 8,
                   name    |-> provider \o " basemap",
                   sources |-> [basemap |->
                      [type        |-> "raster",
                       tiles       |-> <<build_tile_url_from_template(
                                           info.payload.urlTemplate,
                                           Str("{z}"), Str("{x}"), Str("{y}"), Str("b"))>>,
                       tileSize    |-> 256,
                       attribution |-> info.payload.attribution]],
                   layers  |-> <<[id |-> "basemap", type |-> "raster",
                                  source |-> "basemap"]>>,
                   center  |-> <<centerLon, centerLat>>,
                   zoom    |-> zoom])

getMapLibreStyleResult(catalog, provider, centerLat, centerLon, zoom) ==
  LET info == get_provider_info(catalog, provider)
  IN  IF IsRaise(info) THEN info
      ELSE Return([version |-> 8,
                   name    |-> provider \o " basemap",
                   sources |-> [basemap |->
                      [type        |-> "raster",
                       tiles       |-> <<build_tile_url_from_template(
                                           info.payload.urlTemplate,
                                           Str("{z}"), Str("{x}"), Str("{y}"), Str("a"))>>,
                       tileSize    |-> 256,
                       attribution |-> info.payload.attribution]],
                   layers  |-> <<[id |-> "basemap", type |-> "raster",
                                  source |-> "basemap"]>>,
                   center  |-> <<centerLon, centerLat>>,
                   zoom    |-> zoom])

(***************************************************************************)
(* maps_geo_server.py: Python values.                                      *)
(* Besides None, Str and Num (an int) a JSON / Python value is a Float     *)
(* (the exact fraction num / den), a List (a sequence of values) or a Dict *)
(* (a function from key strings to values).                                *)
(***************************************************************************)
Float(n, d) == [t |-> "float", float |-> [num |-> n, den |-> d]]

List(seq) == [t |-> "list", list |-> seq]

Dict(f) == [t |-> "dict", dict |-> f]

EmptyDict == Dict([k \in {} |-> None])

\* bool(v): the truth value Python gives a value in `if`, `not` and `or`.
Truthy(v) ==
  CASE v.t = "null" -> FALSE
    [] v.t = "str"   -> v.str # ""
    [] v.t = "num"   -> v.num # 0
    [] v.t = "float" -> v.float.num # 0
    [] v.t = "list"  -> Len(v.list) # 0
    [] v.t = "dict"  -> DOMAIN v.dict # {}

\* isinstance(v, dict)
isinstance_dict(v) == v.t = "dict"

\* d.get(key, default) of a dict d.
dict_get(d, key, default) == IF key \in DOMAIN d.dict THEN d.dict[key] ELSE default

\* v.get(key, default) of any value: AttributeError unless v is a dict.
get(v, key, default) ==
  IF v.t = "dict" THEN Return(dict_get(v, key, default))
  ELSE Raise("AttributeError", "'" \o v.t \o "' object has no attribute 'get'")

\* v[key] for a str key: KeyError for a dict without the key, TypeError for a
\* value that is not a dict.
subscript(v, key) ==
  IF v.t = "dict"
    THEN IF key \in DOMAIN v.dict THEN Return(v.dict[key]) ELSE Raise("KeyError", key)
    ELSE Raise("TypeError", "'" \o v.t \o "' cannot be indexed with a str")

\* The characters of a str, each a str of length one.
chars(s) == [i \in 1..Len(s) |-> Str(SubSeq(s, i, i))]

\* The keys of a dict in iteration order (the order is not observable below:
\* every use fails on the first key).
RECURSIVE SetToSeq(_)
SetToSeq(S) ==
  IF S = {} THEN <<>>
  ELSE LET k == CHOOSE k \in S : TRUE IN <<Str(k)>> \o SetToSeq(S \ {k})

\* The sequence `for item in v` runs over, or TypeError when v is not iterable.
iterate(v) ==
  CASE v.t = "list" -> Return(v.list)
    [] v.t = "str"  -> Return(chars(v.str))
    [] v.t = "dict" -> Return(SetToSeq(DOMAIN v.dict))
    [] OTHER        -> Raise("TypeError", "'" \o v.t \o "' object is not iterable")

DigitChars == "0123456789"

IsDigits(s) ==
  \A i \in 1..Len(s) : \E d \in 1..10 : SubSeq(s, i, i) = SubSeq(DigitChars, d, d)

RECURSIVE DigitsValue(_)
DigitsValue(s) ==
  IF Len(s) = 0 THEN 0
  ELSE 10 * DigitsValue(SubSeq(s, 1, Len(s) - 1))
       + (CHOOSE d \in 0..9 : SubSeq(DigitChars, d + 1, d + 1) = SubSeq(s, Len(s), Len(s)))

RECURSIVE Pow10(_)
Pow10(k) == IF k = 0 THEN 1 ELSE 10 * Pow10(k - 1)

\* float(s) for a str: an optional sign, digits, an optional point and digits
\* (the literals the enumerated upstream data uses); anything else is a
\* ValueError.  The value is the exact fraction num / den.
float_of_str(s) ==
  LET neg  == Len(s) > 0 /\ SubSeq(s, 1, 1) = "-"
      body == IF neg THEN SubSeq(s, 2, Len(s)) ELSE s
      dots == {i \in 1..Len(body) : SubSeq(body, i, i) = "."}
      dot  == IF dots = {} THEN Len(body) + 1 ELSE CHOOSE i \in dots : \A j \in dots : i <= j
      ip   == SubSeq(body, 1, dot - 1)
      fp   == SubSeq(body, dot + 1, Len(body))
  IN  IF IsDigits(ip) /\ IsDigits(fp) /\ Len(ip) + Len(fp) > 0
        THEN Return(Float((IF neg THEN -1 ELSE 1) * DigitsValue(ip \o fp),
                          Pow10(Len(fp))))
        ELSE Raise("ValueError", "could not convert string to float: '" \o s \o "'")

\* float(v): a float as it is, an int converted, a str parsed, TypeError for
\* anything else.
float(v) ==
  CASE v.t = "float" -> Return(v)
    [] v.t = "num"   -> Return(Float(v.num, 1))
    [] v.t = "str"   -> float_of_str(v.str)
    [] OTHER         -> Raise("TypeError", "float() argument must be a string or a real number")

(***************************************************************************)
(* maps_geo_server.py: the HTTP helpers.                                   *)
(* An upstream reply is what one request meets: a transport error or a     *)
(* timeout (net), else a status code and a body that decodes to a JSON     *)
(* value or does not decode.                                               *)
(***************************************************************************)
NOMINATIM_BASE_URL == "https://nominatim.openstreetmap.org"

OVERPASS_URL == "https://overpass-api.de/api/interpreter"

OSRM_ROUTE_BASE_URL == "https://router.project-osrm.org/route/v1"

Undecodable == [t |-> "undecodable"]

\* What the response of one request gives: raise_for_status, then json().
response_json(reply) ==
  IF reply.net # "ok" THEN Raise(reply.net, "request failed")
  ELSE IF reply.status \notin 200..299
         THEN Raise("HTTPStatusError", "status " \o ToString(reply.status))
  ELSE IF reply.body = Undecodable
         THEN Raise("JSONDecodeError", "Expecting value")
  ELSE Return(reply.body)

\* http_get_json sending the request a second time.
http_get_json_Retry(url, params, reply) ==
  [sent   |-> <<[method |-> "GET", url |-> url, params |-> params, timeout |-> 15],
                [method |-> "GET", url |-> url, params |-> params, timeout |-> 15]>>,
   result |-> response_json(reply)]

\* http_get_json: one GET on a client of its own with a 15 second timeout.
http_get_json(url, params, reply) ==
  [sent   |-> <<[method |-> "GET", url |-> url, params |-> params, timeout |-> 15]>>,
   result |-> response_json(reply)]

\* http_post_form_json: one POST on a client of its own with a 30 second timeout.
http_post_form_json(url, data, reply) ==
  [sent   |-> <<[method |-> "POST", url |-> url, data |-> data, timeout |-> 30]>>,
   result |-> response_json(reply)]

(***************************************************************************)
(* maps_geo_server.py: the four tools.  Each ...Result operator gives the  *)
(* requests the handler sent and how it ended.  A coordinate argument is a *)
(* float, given as its value and as the text an f-string formats it to.    *)
(***************************************************************************)
\* a or b
or_(a, b) == IF Truthy(a) THEN a ELSE b

\* The body of the for loop of geocodeAddress, over the items left.
RECURSIVE geocode_results(_, _)
geocode_results(items, results) ==
  IF Len(items) = 0 THEN Return(results)
  ELSE LET item == Head(items)
           latv == subscript(item, "lat")
           lat  == IF IsRaise(latv) THEN latv ELSE float(latv.payload)
           lonv == subscript(item, "lon")
           lon  == IF IsRaise(lat) THEN lat
                   ELSE IF IsRaise(lonv) THEN lonv ELSE float(lonv.payload)
       IN  IF IsRaise(lon)
             THEN IF lon.exc \in {"KeyError", "ValueError"}
                    THEN geocode_results(Tail(items), results)
                    ELSE lon
             ELSE geocode_results(Tail(items), Append(results,
                    Dict([displayName |-> dict_get(item, "display_name", None),
                          lat         |-> lat.payload,
                          lon         |-> lon.payload,
                          type        |-> dict_get(item, "type", None),
                          class       |-> dict_get(item, "class", None)])))

geocodeAddressResult(query, limit, reply) ==
  LET h   == http_get_json(NOMINATIM_BASE_URL \o "/search",
                           [q |-> query, format |-> "json", limit |-> limit,
                            addressdetails |-> 1], reply)
      it  == IF IsRaise(h.result) THEN h.result ELSE iterate(h.result.payload)
      res == IF IsRaise(it) THEN it ELSE geocode_results(it.payload, <<>>)
  IN  [sent   |-> h.sent,
       result |-> IF IsRaise(res) THEN res
                  ELSE Return(Dict([query   |-> Str(query),
                                    results |-> List(res.payload)]))]

reverseGeocodeResult(lat, lon, reply) ==
  LET h       == http_get_json(NOMINATIM_BASE_URL \o "/reverse",
                               [lat |-> lat.value, lon |-> lon.value, format |-> "json",
                                addressdetails |-> 1], reply)
      data    == h.result.payload
      address == IF isinstance_dict(data) THEN dict_get(data, "address", EmptyDict)
                                          ELSE EmptyDict
      name    == get(data, "display_name", None)
      road    == get(address, "road", None)
  IN  [sent   |-> h.sent,
       result |->
         IF IsRaise(h.result) THEN h.result
         ELSE IF IsRaise(name) THEN name
         ELSE IF IsRaise(road) THEN road
         ELSE Return(Dict(
           [lat         |-> lat.value,
            lon         |-> lon.value,
            displayName |-> name.payload,
            address     |-> Dict(
              [road          |-> road.payload,
               neighbourhood |-> dict_get(address, "neighbourhood", None),
               suburb        |-> dict_get(address, "suburb", None),
               city          |-> or_(or_(dict_get(address, "city", None),
                                         dict_get(address, "town", None)),
                                     dict_get(address, "village", None)),
               state         |-> dict_get(address, "state", None),
               postcode      |-> dict_get(address, "postcode", None),
               country       |-> dict_get(address, "country", None)])]))]

\* SliceLen keeping one item more.
SliceLen_OneMore(n, k) ==
  IF k >= 0 THEN (IF k + 1 < n THEN k + 1 ELSE n)
            ELSE (IF n + k + 1 > 0 THEN n + k + 1 ELSE 0)

\* The number of items of v[:k] for a sequence of n items.
SliceLen(n, k) ==
  IF k >= 0 THEN (IF k < n THEN k ELSE n)
            ELSE (IF n + k > 0 THEN n + k ELSE 0)

\* v[:k]: a prefix of a list or of a str, TypeError for a value that cannot be sliced.
slice_to(v, k) ==
  CASE v.t = "list" -> Return(List(SubSeq(v.list, 1, SliceLen(Len(v.list), k))))
    [] v.t = "str"  -> Return(Str(SubSeq(v.str, 1, SliceLen(Len(v.str), k))))
    [] OTHER        -> Raise("TypeError", "'" \o v.t \o "' object cannot be sliced")

\* The body of the for loop of searchPois, over the elements left.
RECURSIVE poi_results(_, _)
poi_results(els, pois) ==
  IF Len(els) = 0 THEN Return(pois)
  ELSE LET el   == Head(els)
           ty   == get(el, "type", None)
           tags == dict_get(el, "tags", EmptyDict)
           name == get(tags, "name", None)
       IN  IF IsRaise(ty) THEN ty
           ELSE IF ty.payload # Str("node") THEN poi_results(Tail(els), pois)
           ELSE IF IsRaise(name) THEN name
           ELSE poi_results(Tail(els), Append(pois,
                  Dict([name    |-> name.payload,
                        amenity |-> dict_get(tags, "amenity", None),
                        lat     |-> dict_get(el, "lat", None),
                        lon     |-> dict_get(el, "lon", None)])))

\* An except clause that names the HTTP status error only.
ExceptionClasses_StatusOnly == {"HTTPStatusError"}

\* The exceptions `except Exception` catches: every exception the helpers and
\* the handlers raise derives from Exception.
ExceptionClasses ==
  {"ConnectError", "ReadTimeout", "HTTPStatusError", "JSONDecodeError",
   "TypeError", "AttributeError", "KeyError", "ValueError"}

\* The Overpass query: the values the f-string puts into the query text.
overpass_query(keyword, lat, lon, radiusM, maxResults) ==
  [timeout |-> 25, node_around |-> <<radiusM, lat, lon>>, amenity |-> keyword,
   out_body |-> maxResults]

searchPoisResult(keyword, lat, lon, radiusM, maxResults, reply) ==
  LET h        == http_post_form_json(OVERPASS_URL,
                    [data |-> overpass_query(keyword, lat.text, lon.text, radiusM, maxResults)],
                    reply)
      raw      == h.result.payload
      elements == IF isinstance_dict(raw) THEN dict_get(raw, "elements", List(<<>>))
                                          ELSE List(<<>>)
      sl       == slice_to(elements, maxResults)
      it       == IF IsRaise(sl) THEN sl ELSE iterate(sl.payload)
      res      == IF IsRaise(it) THEN it ELSE poi_results(it.payload, <<>>)
  IN  [sent   |-> h.sent,
       result |->
         IF IsRaise(h.result)
           THEN IF h.result.exc \in ExceptionClasses
                  THEN Return(Dict(
                    [center  |-> Dict([lat |-> lat.value, lon |-> lon.value]),
                     search  |-> Dict([keyword |-> Str(keyword), radiusM |-> Num(radiusM)]),
                     results |-> List(<<>>),
                     error   |-> Str("Overpass request failed: " \o h.result.message)]))
                  ELSE h.result
         ELSE IF IsRaise(res) THEN res
         ELSE Return(Dict(
                [center  |-> Dict([lat |-> lat.value, lon |-> lon.value]),
                 search  |-> Dict([keyword |-> Str(keyword), radiusM |-> Num(radiusM)]),
                 results |-> List(res.payload)]))]

\* v[0]
first(v) ==
  CASE v.t = "list" /\ Len(v.list) > 0 -> Return(Head(v.list))
    [] v.t = "list" /\ Len(v.list) = 0 -> Raise("IndexError", "list index out of range")
    [] v.t = "str" /\ Len(v.str) > 0   -> Return(Str(SubSeq(v.str, 1, 1)))
    [] v.t = "str" /\ Len(v.str) = 0   -> Raise("IndexError", "string index out of range")
    [] v.t = "dict"                    -> Raise("KeyError", "0")
    [] OTHER -> Raise("TypeError", "'" \o v.t \o "' object is not subscriptable")

\* v / d for a float d given as the integer it equals.
truediv(v, d) ==
  CASE v.t = "num"   -> Return(Float(v.num, d))
    [] v.t = "float" -> Return(Float(v.float.num, v.float.den * d))
    [] OTHER -> Raise("TypeError", "unsupported operand type(s) for /: '" \o v.t \o "' and 'float'")

\* sep.join(pieces): TypeError for an item that is not a str.
RECURSIVE join(_, _)
join(sep, pieces) ==
  IF Len(pieces) = 0 THEN Return("")
  ELSE IF Head(pieces).t # "str"
         THEN Raise("TypeError", "sequence item: expected str instance")
  ELSE IF Len(pieces) = 1 THEN Return(Head(pieces).str)
  ELSE LET rest == join(sep, Tail(pieces))
       IN  IF IsRaise(rest) THEN rest
           ELSE Return(Head(pieces).str \o sep \o rest.payload)

\* The inner for loop of basicRoute, over the steps left of one leg.
RECURSIVE leg_steps(_, _)
leg_steps(sts, steps) ==
  IF Len(sts) = 0 THEN Return(steps)
  ELSE LET step        == Head(sts)
           maneuver    == get(step, "maneuver", EmptyDict)
           instruction == or_(dict_get(step, "name", None), Str(""))
           modifier    == get(maneuver.payload, "modifier", None)
           step_type   == dict_get(maneuver.payload, "type", None)
           pieces      == SelectSeq(<<step_type, modifier.payload, instruction>>, Truthy)
           text        == join(" - ", pieces)
       IN  IF IsRaise(maneuver) THEN maneuver
           ELSE IF IsRaise(modifier) THEN modifier
           ELSE IF IsRaise(text) THEN text
           ELSE leg_steps(Tail(sts), Append(steps, Str(text.payload)))

\* The outer for loop of basicRoute, over the legs left.
RECURSIVE route_steps(_, _)
route_steps(legs, steps) ==
  IF Len(legs) = 0 THEN Return(steps)
  ELSE LET leg == Head(legs)
           sts == get(leg, "steps", List(<<>>))
           it  == IF IsRaise(sts) THEN sts ELSE iterate(sts.payload)
           res == IF IsRaise(it) THEN it ELSE leg_steps(it.payload, steps)
       IN  IF IsRaise(res) THEN res ELSE route_steps(Tail(legs), res.payload)

\* no_route_payload without the end point.
no_route_payload_NoEnd(startLat, startLon, endLat, endLon) ==
  Dict([error |-> Str("No route found"),
        start |-> Dict([lat |-> startLat.value, lon |-> startLon.value])])

\* The payload basicRoute returns when `not routes`.
no_route_payload(startLat, startLon, endLat, endLon) ==
  Dict([error |-> Str("No route found"),
        start |-> Dict([lat |-> startLat.value, lon |-> startLon.value]),
        end   |-> Dict([lat |-> endLat.value, lon |-> endLon.value])])

basicRouteResult(startLat, startLon, endLat, endLon, profile, reply) ==
  LET path   == startLon.text \o "," \o startLat.text \o ";"
                  \o endLon.text \o "," \o endLat.text
      h      == http_get_json(OSRM_ROUTE_BASE_URL \o "/" \o profile \o "/" \o path,
                              [overview |-> "false", steps |-> "true"], reply)
      data   == h.result.payload
      routes == IF isinstance_dict(data) THEN dict_get(data, "routes", List(<<>>))
                                         ELSE List(<<>>)
      route  == first(routes)
      dist   == get(route.payload, "distance", Num(0))
      km     == IF IsRaise(dist) THEN dist ELSE truediv(dist.payload, 1000)
      dur    == truediv(dict_get(route.payload, "duration", Num(0)), 60)
      legs   == iterate(dict_get(route.payload, "legs", List(<<>>)))
      steps  == IF IsRaise(legs) THEN legs ELSE route_steps(legs.payload, <<>>)
  IN  [sent   |-> h.sent,
       result |->
         IF IsRaise(h.result) THEN h.result
         ELSE IF ~Truthy(routes)
           THEN Return(no_route_payload(startLat, startLon, endLat, endLon))
         ELSE IF IsRaise(route) THEN route
         ELSE IF IsRaise(km) THEN km
         ELSE IF IsRaise(dur) THEN dur
         ELSE IF IsRaise(steps) THEN steps
         ELSE Return(Dict(
                [start       |-> Dict([lat |-> startLat.value, lon |-> startLon.value]),
                 end         |-> Dict([lat |-> endLat.value, lon |-> endLon.value]),
                 profile     |-> Str(profile),
                 distanceKm  |-> km.payload,
                 durationMin |-> dur.payload,
                 steps       |-> List(steps.payload)]))]

(***************************************************************************)
(* Inputs enumerated for the tile tools.                                   *)
(***************************************************************************)
RefZoom == 14

Lats == DOMAIN MercatorLogOverPi

Lons == {-180000, -90000, 0, 35478, 90000, 179999, 180000}

Zooms == ((0 - MaxNegZoom)..MaxZoom) \cup {RefZoom}

ProviderNames == {"OpenStreetMap.Mapnik", "DoesNotExist", ""}

Subdomains == {None, Str("a"), Str("b"), Str("c")}

TileInts == 0..MaxTile

\* The server is between two tool calls.
Idle == op = "none"

(***************************************************************************)
(* Actions of tile_catalog_server.py                                       *)
(***************************************************************************)
latLonToTile ==
  \E lat \in Lats, lon \in Lons, zoom \in Zooms :
    /\ Idle
    /\ op' = "latLonToTile"
    /\ args' = [lat |-> lat, lon |-> lon, zoom |-> zoom]
    /\ outcome' = latLonToTileResult(lat, lon, zoom)
    /\ requests' = <<>>
    /\ UNCHANGED <<TILE_PROVIDERS, client_vars>>

getProviderTileUrl ==
  \E provider \in ProviderNames \cup DOMAIN TILE_PROVIDERS, z \in TileInts, x \in TileInts, y \in TileInts,
     subdomain \in Subdomains :
    /\ Idle
    /\ op' = "getProviderTileUrl"
    /\ args' = [provider |-> provider, z |-> z, x |-> x, y |-> y,
                subdomain |-> subdomain]
    /\ outcome' = getProviderTileUrlResult(TILE_PROVIDERS, provider, z, x, y, subdomain)
    /\ requests' = <<>>
    /\ UNCHANGED <<TILE_PROVIDERS, client_vars>>

getMapLibreStyle ==
  \E provider \in ProviderNames \cup DOMAIN TILE_PROVIDERS, centerLat \in {0, 33895}, centerLon \in {0, 35478},
     zoom \in {12, RefZoom} :
    /\ Idle
    /\ op' = "getMapLibreStyle"
    /\ args' = [provider |-> provider, centerLat |-> centerLat,
                centerLon |-> centerLon, zoom |-> zoom]
    /\ outcome' = getMapLibreStyleResult(TILE_PROVIDERS, provider, centerLat,
                                         centerLon, zoom)
    /\ requests' = <<>>
    /\ UNCHANGED <<TILE_PROVIDERS, client_vars>>

\* An invocation slot of the host: where the handler stands (pc), the tool,
\* the client it holds, the reply its request met and its result so far.
NoClient == 0

IdleCall ==
  [pc |-> "idle", tool |-> "none", client |-> NoClient, reply |-> None,
   result |-> NoOutcome]

Calls == 1..MaxCalls

Init ==
  /\ TILE_PROVIDERS = SeededCatalog
  /\ op = "none"
  /\ args = <<>>
  /\ requests = <<>>
  /\ outcome = NoOutcome
  /\ invocations = [i \in Calls |-> IdleCall]
  /\ open_clients = {}
  /\ clients_created = 0

(***************************************************************************)
(* Inputs enumerated for the geo tools: arguments and upstream replies.    *)
(***************************************************************************)
Coord(text, n, d) == [text |-> text, value |-> Float(n, d)]

HamraLat == Coord("33.895", 33895, 1000)

HamraLon == Coord("35.478", 35478, 1000)

EndLat == Coord("33.82", 3382, 100)

EndLon == Coord("35.49", 3549, 100)

\* All sequences over S of length at most n.
SeqsUpTo(S, n) == UNION {[1..k -> S] : k \in 0..n}

\* The replies a request can meet, for the JSON bodies a 200 response may carry.
Replies(bodies) ==
  {[net |-> "ConnectError"], [net |-> "ReadTimeout"]}
  \cup {[net |-> "ok", status |-> st, body |-> Undecodable] : st \in {404, 504}}
  \cup {[net |-> "ok", status |-> 200, body |-> b] : b \in bodies \cup {Undecodable}}

GeocodeItems ==
  {Dict([lat |-> Str("33.8959"), lon |-> Str("35.4784"),
         display_name |-> Str("Hamra, Beirut"), type |-> Str("residential"),
         class |-> Str("highway")]),
   Dict([lon |-> Str("35.4784")]),
   Dict([lat |-> Str("n/a"), lon |-> Str("35.4784")]),
   Dict([lat |-> None, lon |-> Str("35.4784")]),
   Str("x")}

GeocodeBodies ==
  {List(items) : items \in SeqsUpTo(GeocodeItems, MaxElements)}
  \cup {Dict([error |-> Str("Unable to geocode")]), EmptyDict, None, Num(0)}

ReverseBodies ==
  {Dict([display_name |-> Str("Hamra, Beirut"),
         address |-> Dict([road |-> Str("Hamra"), city |-> Str("Beirut"),
                           country |-> Str("Lebanon")])]),
   Dict([display_name |-> Str("Bhamdoun"),
         address |-> Dict([town |-> Str("Bhamdoun"), village |-> Str("Ain")])]),
   Dict([display_name |-> Str("Somewhere"),
         address |-> Dict([city |-> Str(""), village |-> Str("Ain")])]),
   Dict([display_name |-> Str("Sea")]),
   Dict([display_name |-> Str("Sea"), address |-> None]),
   Dict([error |-> Str("Unable to geocode")]),
   EmptyDict,
   List(<<>>),
   None,
   Str("error")}

PoiElements ==
  {Dict([type |-> Str("node"), lat |-> Float(338959, 10000), lon |-> Float(354784, 10000),
         tags |-> Dict([name |-> Str("Cafe Younes"), amenity |-> Str("cafe")])]),
   Dict([type |-> Str("way"),
         tags |-> Dict([name |-> Str("Mall"), amenity |-> Str("cafe")])]),
   Dict([type |-> Str("node"), lat |-> Float(338, 10), lon |-> Float(354, 10)]),
   Dict([type |-> Str("node"), tags |-> None]),
   Str("x")}

PoiBodies ==
  {Dict([elements |-> List(els)]) : els \in SeqsUpTo(PoiElements, MaxElements)}
  \cup {Dict([elements |-> None]), Dict([remark |-> Str("runtime error")]),
        EmptyDict, List(<<>>), None}

GoodStep ==
  Dict([name |-> Str("Hamra"), maneuver |-> Dict([type |-> Str("turn"),
                                                   modifier |-> Str("left")])])

RouteSteps ==
  {GoodStep,
   Dict([name |-> Str(""), maneuver |-> Dict([type |-> Str("arrive")])]),
   Dict([name |-> None]),
   Dict([name |-> Str("Hamra"), maneuver |-> None]),
   Dict([name |-> Num(7), maneuver |-> Dict([type |-> Str("turn")])]),
   Str("x")}

RouteObjects ==
  {Dict([distance |-> Float(12345, 10), duration |-> Num(600),
         legs |-> List(<<Dict([steps |-> List(sts)])>>)]) : sts \in SeqsUpTo(RouteSteps, 2)}
  \cup {Dict([distance |-> Num(1000), duration |-> Num(60),
              legs |-> List(<<Dict([steps |-> List(<<GoodStep>>)]),
                              Dict([steps |-> List(<<GoodStep>>)])>>)]),
        Dict([distance |-> None, duration |-> Num(60), legs |-> List(<<>>)]),
        Dict([distance |-> Num(1000), duration |-> Str("60"), legs |-> List(<<>>)]),
        Dict([distance |-> Num(1000), duration |-> Num(60), legs |-> None]),
        Dict([distance |-> Num(1000), duration |-> Num(60), legs |-> List(<<None>>)]),
        Dict([distance |-> Num(1000), duration |-> Num(60),
              legs |-> List(<<Dict([steps |-> None])>>)]),
        EmptyDict,
        Str("x"),
        None}

RouteBodies ==
  {Dict([routes |-> List(rs)]) : rs \in SeqsUpTo(RouteObjects, 1)}
  \cup {Dict([routes |-> List(<<r, EmptyDict>>)]) : r \in RouteObjects}
  \cup {Dict([code |-> Str("NoRoute"), routes |-> List(<<>>)]),
        Dict([code |-> Str("NoRoute")]),
        Dict([routes |-> None]),
        Dict([routes |-> Str("none")]),
        Dict([routes |-> Num(1)]),
        EmptyDict, List(<<>>), List(<<EmptyDict>>), None, Str("error")}

Profiles == {"driving", "foot"}

(***************************************************************************)
(* Actions of maps_geo_server.py                                           *)
(***************************************************************************)
geocodeAddress ==
  \E query \in {"Hamra Street, Beirut"}, limit \in 1..MaxResults,
     reply \in Replies(GeocodeBodies) :
    LET r == geocodeAddressResult(query, limit, reply)
    IN  /\ Idle
        /\ op' = "geocodeAddress"
        /\ args' = [query |-> query, limit |-> limit, reply |-> reply]
        /\ requests' = r.sent
        /\ outcome' = r.result
        /\ UNCHANGED <<TILE_PROVIDERS, client_vars>>

reverseGeocode ==
  \E lat \in {HamraLat}, lon \in {HamraLon}, reply \in Replies(ReverseBodies) :
    LET r == reverseGeocodeResult(lat, lon, reply)
    IN  /\ Idle
        /\ op' = "reverseGeocode"
        /\ args' = [lat |-> lat, lon |-> lon, reply |-> reply]
        /\ requests' = r.sent
        /\ outcome' = r.result
        /\ UNCHANGED <<TILE_PROVIDERS, client_vars>>

searchPois ==
  \E keyword \in {"cafe"}, lat \in {HamraLat}, lon \in {HamraLon}, radiusM \in {800},
     maxResults \in (-1)..MaxResults, reply \in Replies(PoiBodies) :
    LET r == searchPoisResult(keyword, lat, lon, radiusM, maxResults, reply)
    IN  /\ Idle
        /\ op' = "searchPois"
        /\ args' = [keyword |-> keyword, lat |-> lat, lon |-> lon,
                    radiusM |-> radiusM, maxResults |-> maxResults, reply |-> reply]
        /\ requests' = r.sent
        /\ outcome' = r.result
        /\ UNCHANGED <<TILE_PROVIDERS, client_vars>>

basicRoute ==
  \E startLat \in {HamraLat}, startLon \in {HamraLon}, endLat \in {EndLat},
     endLon \in {EndLon}, profile \in Profiles, reply \in Replies(RouteBodies) :
    LET r == basicRouteResult(startLat, startLon, endLat, endLon, profile, reply)
    IN  /\ Idle
        /\ op' = "basicRoute"
        /\ args' = [startLat |-> startLat, startLon |-> startLon, endLat |-> endLat,
                    endLon |-> endLon, profile |-> profile, reply |-> reply]
        /\ requests' = r.sent
        /\ outcome' = r.result
        /\ UNCHANGED <<TILE_PROVIDERS, client_vars>>

\* mcp.run: the result or the error of the call is sent to the caller and the
\* server waits for the next call; nothing of the call is kept.
Respond ==
  /\ ~Idle
  /\ op' = "none"
  /\ args' = <<>>
  /\ requests' = <<>>
  /\ outcome' = NoOutcome
  /\ UNCHANGED <<TILE_PROVIDERS, client_vars>>

Next ==
  \/ Respond
  \/ latLonToTile
  \/ getProviderTileUrl
  \/ getMapLibreStyle
  \/ geocodeAddress
  \/ reverseGeocode
  \/ searchPois
  \/ basicRoute

Spec == Init /\ [][Next]_vars

(***************************************************************************)
(* maps_geo_server.py, step by step: the host may have several invocations *)
(* in progress; each one runs its HTTP helper                              *)
(*     async with httpx.AsyncClient(timeout=...) as client:                *)
(*         response = await client.get / post (...)                        *)
(*         response.raise_for_status(); return response.json()             *)
(* and then the rest of its handler.  Other invocations run while one      *)
(* awaits.                                                                 *)
(***************************************************************************)
GeoTools == {"geocodeAddress", "reverseGeocode", "searchPois", "basicRoute"}

\* One well-formed upstream body per tool.
GoodBody(tool) ==
  CASE tool = "geocodeAddress" ->
         List(<<Dict([lat |-> Str("33.8959"), lon |-> Str("35.4784"),
                      display_name |-> Str("Hamra, Beirut")])>>)
    [] tool = "reverseGeocode" ->
         Dict([display_name |-> Str("Hamra, Beirut"),
               address |-> Dict([road |-> Str("Hamra"), city |-> Str("Beirut")])])
    [] tool = "searchPois" ->
         Dict([elements |-> List(<<Dict([type |-> Str("node"),
                 tags |-> Dict([name |-> Str("Cafe Younes"), amenity |-> Str("cafe")])])>>)])
    [] tool = "basicRoute" ->
         Dict([routes |-> List(<<Dict([distance |-> Num(1000), duration |-> Num(60),
                 legs |-> List(<<Dict([steps |-> List(<<GoodStep>>)])>>)])>>)])

\* The replies enumerated for an interleaved invocation: a timeout, a good
\* body, and a body the handler fails on after its helper has returned.
InterleavedReplies(tool) ==
  {[net |-> "ReadTimeout"],
   [net |-> "ok", status |-> 200, body |-> GoodBody(tool)],
   [net |-> "ok", status |-> 200, body |-> Dict([elements |-> None, address |-> None,
                                                 routes |-> Str("none")])]}

\* How the handler of a tool ends for the reply its request met.
ToolResult(tool, reply) ==
  CASE tool = "geocodeAddress" ->
         geocodeAddressResult("Hamra Street, Beirut", 3, reply).result
    [] tool = "reverseGeocode" ->
         reverseGeocodeResult(HamraLat, HamraLon, reply).result
    [] tool = "searchPois" ->
         searchPoisResult("cafe", HamraLat, HamraLon, 800, MaxResults, reply).result
    [] tool = "basicRoute" ->
         basicRouteResult(HamraLat, HamraLon, EndLat, EndLon, "driving", reply).result

\* One client shared by every call.
acquire_client_Shared(created) == 1

\* httpx.AsyncClient(...): a new client object, the created-th of the run.
acquire_client(created) == created + 1

\* `async with httpx.AsyncClient(...) as client`: the invocation starts, makes
\* a client and enters its scope.
Enter(i) ==
  \E tool \in GeoTools :
    LET client == acquire_client(clients_created)
    IN  /\ invocations[i].pc = "idle"
        /\ clients_created < MaxClients
        /\ invocations' = [invocations EXCEPT
             ![i] = [IdleCall EXCEPT !.pc = "entered", !.tool = tool, !.client = client]]
        /\ open_clients' = open_clients \cup {client}
        /\ clients_created' = clients_created + 1
        /\ UNCHANGED <<TILE_PROVIDERS, call_vars>>

\* `await client.get(...)` / `await client.post(...)`: the request is sent and
\* the invocation waits.
Send(i) ==
  /\ invocations[i].pc = "entered"
  /\ invocations' = [invocations EXCEPT ![i].pc = "awaiting"]
  /\ UNCHANGED <<TILE_PROVIDERS, call_vars, open_clients, clients_created>>

\* The request meets its reply: the helper has a JSON value to return or an
\* exception to let out, still inside the scope of its client.
Receive(i) ==
  /\ invocations[i].pc = "awaiting"
  /\ \E reply \in InterleavedReplies(invocations[i].tool) :
       invocations' = [invocations EXCEPT
         ![i].pc = "leaving", ![i].reply = reply, ![i].result = response_json(reply)]
  /\ UNCHANGED <<TILE_PROVIDERS, call_vars, open_clients, clients_created>>

\* The end of the `async with` block, by return or by exception: the client is
\* closed.
Exit(i) ==
  /\ invocations[i].pc = "leaving"
  /\ open_clients' = open_clients \ {invocations[i].client}
  /\ invocations' = [invocations EXCEPT ![i].pc = "left", ![i].client = NoClient]
  /\ UNCHANGED <<TILE_PROVIDERS, call_vars, clients_created>>

\* The rest of the handler: the exception goes to the caller (or is caught by
\* searchPois), or the JSON value is normalised.
Finish(i) ==
  /\ invocations[i].pc = "left"
  /\ invocations' = [invocations EXCEPT
       ![i].pc = "ended",
       ![i].result = ToolResult(invocations[i].tool, invocations[i].reply)]
  /\ UNCHANGED <<TILE_PROVIDERS, call_vars, open_clients, clients_created>>

\* The host sends the result or the error to the caller.
Deliver(i) ==
  /\ invocations[i].pc = "ended"
  /\ invocations' = [invocations EXCEPT ![i] = IdleCall]
  /\ UNCHANGED <<TILE_PROVIDERS, call_vars, open_clients, clients_created>>

NextClients ==
  \E i \in Calls :
    \/ Enter(i)
    \/ Send(i)
    \/ Receive(i)
    \/ Exit(i)
    \/ Finish(i)
    \/ Deliver(i)

SpecClients == Init /\ [][NextClients]_vars

(***************************************************************************)
(* tile_catalog_server.py with other catalogs: TILE_PROVIDERS is a         *)
(* module-level dict written only in the source text, so a build may hold  *)
(* more descriptors than the seeded one; the tools take whatever it holds. *)
(***************************************************************************)
ExtendedCatalog ==
  [n \in {"OpenStreetMap.Mapnik", "Example.Tiles"} |->
     IF n = "OpenStreetMap.Mapnik" THEN SeededCatalog[n]
     ELSE [urlTemplate |-> "https://{s}.tiles.example.org/{z}/{x}/{y}.png",
           subdomains  |-> <<"t1", "t2">>,
           attribution |-> "(c) Example",
           description |-> "Example raster tiles."]]

Catalogs == {SeededCatalog, ExtendedCatalog}

InitCatalog ==
  /\ TILE_PROVIDERS \in Catalogs
  /\ op = "none"
  /\ args = <<>>
  /\ requests = <<>>
  /\ outcome = NoOutcome
  /\ invocations = [i \in Calls |-> IdleCall]
  /\ open_clients = {}
  /\ clients_created = 0

SpecCatalog == InitCatalog /\ [][Next]_vars

(***************************************************************************)
(* Properties of tile_catalog_server.py                                    *)
(***************************************************************************)
\* C1: for every zoom >= 0 and every point with latitude in [-90,90] and
\* longitude in [-180,180], latLonToTile returns x and y with
\* 0 <= x < 2^zoom and 0 <= y < 2^zoom.
C1_TileIndicesInRange ==
  (op = "latLonToTile" /\ args.zoom >= 0
     /\ args.lat >= -90000 /\ args.lat <= 90000
     /\ args.lon >= -180000 /\ args.lon <= 180000)
  => /\ IsReturn(outcome)
     /\ 0 <= outcome.payload.x /\ outcome.payload.x < Pow2(args.zoom)
     /\ 0 <= outcome.payload.y /\ outcome.payload.y < Pow2(args.zoom)

\* C5: for a provider name that is not a key of the catalog getProviderTileUrl
\* and getMapLibreStyle fail with the unknown-provider error and return no
\* payload; for a name that is a key neither fails with it; and neither
\* operation changes the catalog.
C5_UnknownProvider ==
  /\ [](op \in {"getProviderTileUrl", "getMapLibreStyle"}
        => IF args.provider \in DOMAIN TILE_PROVIDERS
             THEN IsReturn(outcome)
             ELSE /\ IsRaise(outcome)
                  /\ outcome.exc = "ValueError"
                  /\ outcome.message = "Unknown tile provider: " \o args.provider)
  /\ [][op' \in {"getProviderTileUrl", "getMapLibreStyle"}
        => TILE_PROVIDERS' = TILE_PROVIDERS]_vars

C5_Witness ==
  /\ op = "getMapLibreStyle"
  /\ args.provider = "DoesNotExist"
  /\ IsRaise(outcome)
  /\ TILE_PROVIDERS = SeededCatalog

\* Substituting {z}, {x}, {y} in a template-bearing URL, as a rendering client does.
SubstituteTile(url, z, x, y) ==
  replace(replace(replace(url, "{z}", ToString(z)), "{x}", ToString(x)),
          "{y}", ToString(y))

\* The tiles list of the style document getMapLibreStyle returns for a provider.
StyleTiles(provider) ==
  getMapLibreStyleResult(TILE_PROVIDERS, provider, 0, 0, 12).payload.sources.basemap.tiles

\* C7: for every provider of the catalog and every tile coordinate, the single
\* tile URL of getMapLibreStyle's output with {z}, {x}, {y} substituted equals
\* the url getProviderTileUrl returns for that coordinate with subdomain "a".
C7_StyleRoundTrip ==
  (op = "getProviderTileUrl" /\ args.provider \in DOMAIN TILE_PROVIDERS
     /\ args.subdomain = Str("a"))
  => /\ IsReturn(outcome)
     /\ Len(StyleTiles(args.provider)) = 1
     /\ SubstituteTile(StyleTiles(args.provider)[1], args.z, args.x, args.y)
          = outcome.payload.url

C7_Witness ==
  /\ op = "getProviderTileUrl"
  /\ args.provider = "OpenStreetMap.Mapnik"
  /\ args.subdomain = Str("a")
  /\ args.z = 2 /\ args.x = 1 /\ args.y = 0
  /\ IsReturn(outcome)
  /\ outcome.payload.url = "https://a.tile.openstreetmap.org/2/1/0.png"

\* C8: every call of latLonToTile with a negative zoom, or with latitude +90
\* or -90, fails with an error and returns no tile coordinate.
C8_DegenerateInputFails ==
  (op = "latLonToTile"
     /\ (args.zoom < 0 \/ args.lat = 90000 \/ args.lat = -90000))
  => IsRaise(outcome)

\* C9 as stated: latLonToTile(33.895, 35.478, 14) returns x = 9541, y = 6479
\* and latLonToTile(0, 0, 0) returns x = 0, y = 0.
C9_ReferenceValuesAsStated ==
  /\ (op = "latLonToTile" /\ args = [lat |-> 33895, lon |-> 35478, zoom |-> RefZoom])
       => (IsReturn(outcome) /\ outcome.payload.x = 9541 /\ outcome.payload.y = 6479)
  /\ (op = "latLonToTile" /\ args = [lat |-> 0, lon |-> 0, zoom |-> 0])
       => (IsReturn(outcome) /\ outcome.payload.x = 0 /\ outcome.payload.y = 0)

\* C9 (amended): latLonToTile(33.895, 35.478, 14) returns x = 9806, y = 6550
\* and latLonToTile(0, 0, 0) returns x = 0, y = 0.
C9_ReferenceValues ==
  /\ (op = "latLonToTile" /\ args = [lat |-> 33895, lon |-> 35478, zoom |-> RefZoom])
       => (IsReturn(outcome) /\ outcome.payload = [z |-> RefZoom, x |-> 9806, y |-> 6550])
  /\ (op = "latLonToTile" /\ args = [lat |-> 0, lon |-> 0, zoom |-> 0])
       => (IsReturn(outcome) /\ outcome.payload = [z |-> 0, x |-> 0, y |-> 0])

C9_Witness ==
  /\ op = "latLonToTile"
  /\ args = [lat |-> 33895, lon |-> 35478, zoom |-> RefZoom]
  /\ IsReturn(outcome)

(***************************************************************************)
(* Properties of maps_geo_server.py                                        *)
(***************************************************************************)
\* The upstream call of the invocation failed: it raised instead of giving a
\* JSON value.
UpstreamFailed == IsRaise(response_json(args.reply))

\* The upstream call failed by a transport error, a timeout or a non-2xx status.
UpstreamRequestFailed ==
  args.reply.net # "ok" \/ args.reply.status \notin 200..299

\* C2: whenever the upstream POST fails with any exception, searchPois returns
\* a payload whose results list is empty and whose error field is a string
\* describing the failure; it does not raise.
C2_PoiDegrades ==
  (op = "searchPois" /\ UpstreamFailed)
  => /\ IsReturn(outcome)
     /\ outcome.payload.t = "dict"
     /\ {"results", "error"} \subseteq DOMAIN outcome.payload.dict
     /\ outcome.payload.dict.results = List(<<>>)
     /\ outcome.payload.dict.error.t = "str"
     /\ outcome.payload.dict.error.str
          = "Overpass request failed: " \o response_json(args.reply).message

C2_Witness ==
  /\ op = "searchPois"
  /\ args.reply = [net |-> "ReadTimeout"]
  /\ IsReturn(outcome)
  /\ outcome.payload.dict.results = List(<<>>)

\* C3: for geocodeAddress, reverseGeocode and basicRoute an upstream failure
\* (non-2xx status, timeout, transport error) ends the invocation with that
\* failure raised to the caller after exactly one request: no retry and no
\* returned payload.
C3_FailurePropagates ==
  (op \in {"geocodeAddress", "reverseGeocode", "basicRoute"} /\ UpstreamRequestFailed)
  => /\ IsRaise(outcome)
     /\ outcome.exc = response_json(args.reply).exc
     /\ Len(requests) = 1
     /\ requests[1].method = "GET"

C3_Witness ==
  /\ op = "basicRoute"
  /\ args.reply.net = "ok"
  /\ args.reply.status = 504
  /\ IsRaise(outcome)
  /\ outcome.exc = "HTTPStatusError"
  /\ Len(requests) = 1

\* The upstream response of a basicRoute call holds no route: it is not an
\* object, or has no routes key, or its routes list is empty.
ZeroRoutes ==
  LET body == args.reply.body
  IN  \/ body.t # "dict"
      \/ "routes" \notin DOMAIN body.dict
      \/ body.dict.routes = List(<<>>)

\* C4: when the upstream call succeeds but yields zero routes, basicRoute
\* returns a payload with error "No route found", the start and end points it
\* was called with, and no distanceKm, durationMin or steps.
C4_NoRouteFound ==
  (op = "basicRoute" /\ ~UpstreamFailed /\ ZeroRoutes)
  => /\ IsReturn(outcome)
     /\ outcome.payload.t = "dict"
     /\ DOMAIN outcome.payload.dict = {"error", "start", "end"}
     /\ outcome.payload.dict.error = Str("No route found")
     /\ outcome.payload.dict.start
          = Dict([lat |-> args.startLat.value, lon |-> args.startLon.value])
     /\ outcome.payload.dict.end
          = Dict([lat |-> args.endLat.value, lon |-> args.endLon.value])

C4_Witness ==
  /\ op = "basicRoute"
  /\ args.reply.net = "ok"
  /\ args.reply.status = 200
  /\ args.reply.body = Dict([code |-> Str("NoRoute"), routes |-> List(<<>>)])
  /\ IsReturn(outcome)
  /\ "error" \in DOMAIN outcome.payload.dict

\* C6: for every JSON value the upstream call successfully returns, each of
\* geocodeAddress, reverseGeocode, searchPois and basicRoute returns a
\* payload and does not raise.
C6_SurvivesMalformedData ==
  (op \in {"geocodeAddress", "reverseGeocode", "searchPois", "basicRoute"}
     /\ ~UpstreamFailed)
  => IsReturn(outcome)

\* The elements list of the upstream response of a searchPois call (empty when
\* the response has none).
UpstreamElements ==
  LET body == args.reply.body
  IN  IF body.t = "dict" /\ "elements" \in DOMAIN body.dict
         /\ body.dict.elements.t = "list"
        THEN body.dict.elements.list
        ELSE <<>>

IsNode(el) == el.t = "dict" /\ "type" \in DOMAIN el.dict /\ el.dict.type = Str("node")

Min(a, b) == IF a < b THEN a ELSE b

\* The fields of an upstream node a POI result carries.
PoiOfNode(el) ==
  LET tags == IF "tags" \in DOMAIN el.dict THEN el.dict.tags ELSE EmptyDict
  IN  Dict([name    |-> IF "name" \in DOMAIN tags.dict THEN tags.dict.name ELSE None,
            amenity |-> IF "amenity" \in DOMAIN tags.dict THEN tags.dict.amenity ELSE None,
            lat     |-> IF "lat" \in DOMAIN el.dict THEN el.dict.lat ELSE None,
            lon     |-> IF "lon" \in DOMAIN el.dict THEN el.dict.lon ELSE None])

RECURSIVE PoisOfNodes(_)
PoisOfNodes(els) ==
  IF Len(els) = 0 THEN <<>>
  ELSE IF IsNode(Head(els)) THEN <<PoiOfNode(Head(els))>> \o PoisOfNodes(Tail(els))
  ELSE PoisOfNodes(Tail(els))

HoldsClient(i) == invocations[i].client # NoClient

\* C11: each invocation of geocodeAddress, reverseGeocode, searchPois or
\* basicRoute acquires a client of its own, never one another invocation
\* holds or has open, and the client is released on every exit path: an
\* invocation that has left its helper or has ended (by return, by a
\* propagated error or by the degraded POI path) holds no client, and no
\* client stays open without an invocation inside its scope.
C11_ScopedClients ==
  /\ [](/\ \A i \in Calls :
             /\ invocations[i].pc \in {"idle", "left", "ended"} => ~HoldsClient(i)
             /\ invocations[i].pc \in {"entered", "awaiting", "leaving"}
                  => (HoldsClient(i) /\ invocations[i].client \in open_clients)
        /\ \A i, j \in Calls :
             (i # j /\ HoldsClient(i)) => invocations[i].client # invocations[j].client
        /\ open_clients = {invocations[i].client : i \in {j \in Calls : HoldsClient(j)}})
  /\ [][\A i \in Calls :
          (invocations[i].pc = "idle" /\ invocations'[i].pc = "entered")
            => /\ invocations'[i].client \notin open_clients
               /\ \A j \in Calls : invocations[j].client # invocations'[i].client]_vars

\* An invocation has ended by the degraded POI path and holds nothing, while
\* another one is waiting for its reply with its own client open.
C11_Witness ==
  \E i, j \in Calls :
    /\ i # j
    /\ invocations[i].pc = "ended"
    /\ invocations[i].tool = "searchPois"
    /\ invocations[i].reply = [net |-> "ReadTimeout"]
    /\ IsReturn(invocations[i].result)
    /\ ~HoldsClient(i)
    /\ invocations[j].pc = "awaiting"
    /\ open_clients = {invocations[j].client}

(***************************************************************************)
(* Properties of the default subdomain                                     *)
(***************************************************************************)
\* C12: for every provider descriptor the catalog holds, getProviderTileUrl
\* called without a subdomain replaces {s} with the first element of that
\* provider's subdomains, and getMapLibreStyle builds its tile URL with {s}
\* replaced by that same first element.
C12_DefaultSubdomainFromCatalog ==
  /\ (op = "getProviderTileUrl" /\ args.provider \in DOMAIN TILE_PROVIDERS
        /\ args.subdomain = None)
       => LET info == TILE_PROVIDERS[args.provider]
          IN  /\ IsReturn(outcome)
              /\ outcome.payload.url
                   = replace(SubstituteTile(info.urlTemplate, args.z, args.x, args.y),
                             "{s}", info.subdomains[1])
  /\ (op = "getMapLibreStyle" /\ args.provider \in DOMAIN TILE_PROVIDERS)
       => LET info == TILE_PROVIDERS[args.provider]
          IN  /\ IsReturn(outcome)
              /\ outcome.payload.sources.basemap.tiles
                   = <<replace(info.urlTemplate, "{s}", info.subdomains[1])>>

====
